---- MODULE Spec2Model ----
(***************************************************************************)
(* A model of two pieces of the textual repository:                        *)
(*                                                                         *)
(*   - textual/renderables/align.py: the Align renderable.  One Align      *)
(*     object is constructed, rendered (__rich_console__) and measured     *)
(*     (__rich_measure__); its output may be wrapped in a second Align of  *)
(*     the same size, style and modes.                                     *)
(*   - textual/demo.py: the DarkSwitch widget, which binds the value of a  *)
(*     Checkbox to the application's reactive "dark" flag in both          *)
(*     directions.                                                         *)
(*                                                                         *)
(* A Segment is a record [text, style]; text is a sequence of one-cell     *)
(* characters.  A line is a sequence of Segments.                          *)
(***************************************************************************)
EXTENDS Integers, Sequences, FiniteSets, TLC

\* ------------------------------------------------------------------ bounds
\* Largest target width and height of Size.
MaxWidth == 6
MaxHeight == 4
\* Largest number of lines and of cells per line the inner renderable draws.
MaxLines == 2
MaxLineLen == 3
\* How many key presses and clicks the user makes in the demo.
MaxKeys == 4

\* ----------------------------------------------------------------- values
HorizontalModes == {"left", "center", "right"}
VerticalModes == {"top", "middle", "bottom"}
\* The fill styles an Align is constructed with.
FillStyles == {"on blue"}
\* ConsoleOptions.max_width of a call: a console narrower than the widest
\* inner line, and one as wide as the widest target.
OptionWidths == {MaxLineLen - 1, MaxWidth}

Max(a, b) == IF a >= b THEN a ELSE b
Min(a, b) == IF a <= b THEN a ELSE b

\* " " * n
Spaces(n) == [i \in 1..Max(0, n) |-> " "]

Segment(text, style) == [text |-> text, style |-> style]

\* Segment.line()
SegmentLine == Segment(<<"\n">>, "null")

IsNewLine(seg) == seg.text = <<"\n">>

\* Segment.cell_length
CellLength(seg) == Len(seg.text)

RECURSIVE get_line_length(_)
get_line_length(line) ==
  IF line = <<>> THEN 0
  ELSE CellLength(Head(line)) + get_line_length(Tail(line))

\* The first n cells of a line, a segment being split where the cut falls.
RECURSIVE CropLine(_, _)
CropLine(line, n) ==
  IF line = <<>> \/ n <= 0 THEN <<>>
  ELSE LET seg == Head(line)
       IN IF CellLength(seg) <= n
          THEN <<seg>> \o CropLine(Tail(line), n - CellLength(seg))
          ELSE <<Segment(SubSeq(seg.text, 1, n), seg.style)>>

\* The cells of a line, one <<character, style>> pair per cell.
RECURSIVE Cells(_)
Cells(line) ==
  IF line = <<>> THEN <<>>
  ELSE [i \in 1..CellLength(Head(line)) |-> <<Head(line).text[i], Head(line).style>>]
       \o Cells(Tail(line))

\* The line the inner renderable draws for a width: one bold cell, then the
\* rest in a second segment.
ContentLine(n) ==
  IF n = 0 THEN <<>>
  ELSE IF n = 1 THEN <<Segment(<<"X">>, "bold")>>
  ELSE <<Segment(<<"X">>, "bold"), Segment([i \in 1..(n - 1) |-> "X"], "null")>>

\* What the inner renderables draw: up to MaxLines lines of up to MaxLineLen
\* cells, no line wider than the one before it.
Renderables ==
  LET widths == UNION {[1..k -> 0..MaxLineLen] : k \in 0..MaxLines}
      ragged == {w \in widths : \A i \in 1..(Len(w) - 1) : w[i] >= w[i + 1]}
  IN {[i \in 1..Len(w) |-> ContentLine(w[i])] : w \in ragged}

Sizes == [width : 0..MaxWidth, height : 0..MaxHeight]

\* console.render_lines(renderable, options, pad=False): the renderable's lines,
\* each cropped to options.max_width and not padded.
render_lines(renderable, max_width) ==
  [i \in 1..Len(renderable) |-> CropLine(renderable[i], max_width)]

\* ------------------------------------------------ _segment_tools.align_lines
\* A line of `width` fill cells.
blank_line(width, style) == <<Segment(Spaces(width), style)>>

\* The fill cells put to the left of a line that leaves `excess` cells free.
left_space(horizontal, excess) ==
  CASE horizontal = "left" -> 0
    [] horizontal = "center" -> excess \div 2
    [] horizontal = "right" -> excess
    [] OTHER -> 0

\* The fill rows put above content that leaves `excess` rows free.
top_blank_lines(vertical, excess) ==
  CASE vertical = "top" -> 0
    [] vertical = "middle" -> excess \div 2
    [] vertical = "bottom" -> excess
    [] OTHER -> 0

\* One inner line cropped to `width` and padded to it with fill cells.
align_line(line, style, width, horizontal) ==
  LET excess == Max(0, width - get_line_length(line))
      left == left_space(horizontal, excess)
  IN <<Segment(Spaces(left), style)>>
       \o CropLine(line, width)
       \o <<Segment(Spaces(excess - left), style)>>

\* The lines cropped to size.height rows and padded to it with fill rows.
align_lines(lines, style, size, horizontal, vertical) ==
  LET shown == Min(Len(lines), size.height)
      top == top_blank_lines(vertical, size.height - shown)
  IN [i \in 1..size.height |->
        IF i <= top \/ i > top + shown
        THEN blank_line(size.width, style)
        ELSE align_line(lines[i - top], style, size.width, horizontal)]

\* ------------------------------------------------------------------- Align
\* `yield from line; yield new_line` for each line.
RECURSIVE YieldLines(_)
YieldLines(aligned) ==
  IF aligned = <<>> THEN <<>>
  ELSE Head(aligned) \o <<SegmentLine>> \o YieldLines(Tail(aligned))

\* `yield from line` alone: the new_line segments are left out.
RECURSIVE YieldNoNewLine(_)
YieldNoNewLine(aligned) ==
  IF aligned = <<>> THEN <<>>
  ELSE Head(aligned) \o YieldNoNewLine(Tail(aligned))

\* `yield new_line; yield from line`: the new_line comes before its line.
RECURSIVE YieldNewLineFirst(_)
YieldNewLineFirst(aligned) ==
  IF aligned = <<>> THEN <<>>
  ELSE <<SegmentLine>> \o Head(aligned) \o YieldNewLineFirst(Tail(aligned))

\* __rich_console__ that yields new_line before each line, not after it.
RichConsoleNewLineFirst(self, max_width) ==
  LET lines == render_lines(self.renderable, max_width)
  IN [lines |-> lines,
      out |-> YieldNewLineFirst(align_lines(lines, self.style, self.size,
                                            self.horizontal, self.vertical))]

\* __rich_console__ that never yields new_line.
RichConsoleNoNewLine(self, max_width) ==
  LET lines == render_lines(self.renderable, max_width)
  IN [lines |-> lines,
      out |-> YieldNoNewLine(align_lines(lines, self.style, self.size,
                                         self.horizontal, self.vertical))]

\* __rich_console__ that hands vertical and horizontal to align_lines in
\* each other's place.
RichConsoleSwappedModes(self, max_width) ==
  LET lines == render_lines(self.renderable, max_width)
  IN [lines |-> lines,
      out |-> YieldLines(align_lines(lines, self.style, self.size,
                                     self.vertical, self.horizontal))]

\* __rich_console__ that hands Size(height, width) to align_lines.
RichConsoleTransposedSize(self, max_width) ==
  LET lines == render_lines(self.renderable, max_width)
  IN [lines |-> lines,
      out |-> YieldLines(align_lines(lines, self.style,
                                     [width |-> self.size.height,
                                      height |-> self.size.width],
                                     self.horizontal, self.vertical))]

\* __rich_console__ that fills with the null style instead of self.style.
RichConsoleNullStyle(self, max_width) ==
  LET lines == render_lines(self.renderable, max_width)
  IN [lines |-> lines,
      out |-> YieldLines(align_lines(lines, "null", self.size,
                                     self.horizontal, self.vertical))]

\* __rich_console__ that renders the inner lines to the console's width
\* instead of the Align's own: the target width is options.max_width.
RichConsoleOptionsWidth(self, max_width) ==
  LET lines == render_lines(self.renderable, max_width)
  IN [lines |-> lines,
      out |-> YieldLines(align_lines(lines, self.style,
                                     [width |-> max_width,
                                      height |-> self.size.height],
                                     self.horizontal, self.vertical))]

\* Align.__rich_console__ called with options.max_width = max_width: the
\* inner lines it renders and the segments it yields.
RichConsole(self, max_width) ==
  LET lines == render_lines(self.renderable, max_width)
  IN [lines |-> lines,
      out |-> YieldLines(align_lines(lines, self.style, self.size,
                                     self.horizontal, self.vertical))]

Measurement(minimum, maximum) == [minimum |-> minimum, maximum |-> maximum]

\* __rich_measure__ that reports the console's width as the maximum.
RichMeasureOptionsMax(self, max_width) ==
  Measurement(self.size.width, max_width)

\* Align.__rich_measure__ called with options.max_width = max_width.
RichMeasure(self, max_width) ==
  Measurement(self.size.width, self.size.width)

\* The lines of a segment stream: the segments before each new_line, and the
\* segments after the last one when there are any.
RECURSIVE SplitFrom(_, _)
SplitFrom(stream, current) ==
  IF stream = <<>> THEN (IF current = <<>> THEN <<>> ELSE <<current>>)
  ELSE IF IsNewLine(Head(stream))
       THEN <<current>> \o SplitFrom(Tail(stream), <<>>)
       ELSE SplitFrom(Tail(stream), Append(current, Head(stream)))

SplitLines(stream) == SplitFrom(stream, <<>>)

VARIABLES
  align,        \* the Align object: renderable, size, style, horizontal, vertical
  lines,        \* the inner lines of the last __rich_console__ call
  emitted,      \* the segments the last __rich_console__ call yielded
  rendered,     \* whether __rich_console__ has run on this object
  measurement,  \* the result of __rich_measure__, <<>> before it has run
  wrapped,      \* whether the renderable is the output of another Align
  dark,         \* DemoApp.dark, the reactive the DarkSwitch watches
  value,        \* the value of the DarkSwitch's Checkbox
  mounted,      \* whether DarkSwitch.on_mount has registered on_dark_change
  hidden,       \* whether the Sidebar (which holds the DarkSwitch) has class -hidden
  queue,        \* the Checkbox.Changed messages posted to the DarkSwitch, oldest first
  callbacks,    \* the on_dark_change invocations the "dark" watcher has pending
  keys          \* how many key presses and clicks the user has left

alignVars == <<align, lines, emitted, rendered, measurement, wrapped>>
demoVars == <<dark, value, mounted, hidden, queue, callbacks, keys>>
vars == <<alignVars, demoVars>>

\* The demo before it is composed: nothing of it is in the Align states.
DemoIdle ==
  /\ dark = FALSE
  /\ value = FALSE
  /\ mounted = FALSE
  /\ hidden = TRUE
  /\ queue = <<>>
  /\ callbacks = 0
  /\ keys = 0

\* Align.__init__, the inner renderable drawn from Renderables.
Init ==
  /\ align \in [renderable : Renderables, size : Sizes, style : FillStyles,
                horizontal : HorizontalModes, vertical : VerticalModes]
  /\ lines = <<>>
  /\ emitted = <<>>
  /\ rendered = FALSE
  /\ measurement = <<>>
  /\ wrapped = FALSE
  /\ DemoIdle

__rich_console__ ==
  \E max_width \in OptionWidths :
    LET result == RichConsole(align, max_width)
    IN /\ lines' = result.lines
       /\ emitted' = result.out
       /\ rendered' = TRUE
       /\ UNCHANGED <<align, measurement, wrapped, demoVars>>

__rich_measure__ ==
  \E max_width \in OptionWidths :
    /\ measurement' = RichMeasure(align, max_width)
    /\ UNCHANGED <<align, lines, emitted, rendered, wrapped, demoVars>>

\* Align.__init__ of a second Align around the first one's output, with the
\* same size, style and modes.
__init__ ==
  /\ rendered
  /\ ~wrapped
  /\ align' = [align EXCEPT !.renderable = SplitLines(emitted)]
  /\ lines' = <<>>
  /\ emitted' = <<>>
  /\ rendered' = FALSE
  /\ measurement' = <<>>
  /\ wrapped' = TRUE
  /\ UNCHANGED demoVars

Next == __rich_console__ \/ __rich_measure__ \/ __init__

Spec == Init /\ [][Next]_vars

\* -------------------------------------------------------------- DarkSwitch
\* textual.reactive: assigning to a reactive attribute runs its watchers only
\* when the assignment changes the value.
watchers_fire(old, new) == old # new

\* Checkbox: a change of its value posts Checkbox.Changed, carrying the new
\* value, to the message queue of its parent, the DarkSwitch.
post_changed(messages, new) == Append(messages, new)

\* DemoApp(), composed: the Sidebar is hidden, the Checkbox holds app.dark.
DemoInit ==
  /\ align = [renderable |-> <<>>, size |-> [width |-> 0, height |-> 0],
              style |-> "null", horizontal |-> "left", vertical |-> "top"]
  /\ lines = <<>>
  /\ emitted = <<>>
  /\ rendered = FALSE
  /\ measurement = <<>>
  /\ wrapped = FALSE
  /\ dark \in BOOLEAN
  /\ value = dark
  /\ mounted = FALSE
  /\ hidden = TRUE
  /\ queue = <<>>
  /\ callbacks = 0
  /\ keys = MaxKeys

\* DarkSwitch.on_mount: watch(self.app, "dark", self.on_dark_change).
on_mount ==
  /\ ~mounted
  /\ mounted' = TRUE
  /\ UNCHANGED <<alignVars, dark, value, hidden, queue, callbacks, keys>>

\* ctrl+s: app.toggle_class('Sidebar', '-hidden').
toggle_sidebar ==
  /\ mounted
  /\ keys > 0
  /\ keys' = keys - 1
  /\ hidden' = ~hidden
  /\ UNCHANGED <<alignVars, dark, value, mounted, queue, callbacks>>

\* ctrl+t: app.toggle_dark flips app.dark, and the watcher has one more
\* on_dark_change to run.
toggle_dark ==
  /\ mounted
  /\ keys > 0
  /\ keys' = keys - 1
  /\ dark' = ~dark
  /\ callbacks' = callbacks + 1
  /\ UNCHANGED <<alignVars, value, mounted, hidden, queue>>

\* A click on the Checkbox of the shown Sidebar flips its value, and the
\* Checkbox posts Changed with the new value to the DarkSwitch.
click_checkbox ==
  /\ mounted
  /\ ~hidden
  /\ keys > 0
  /\ keys' = keys - 1
  /\ value' = ~value
  /\ queue' = post_changed(queue, ~value)
  /\ UNCHANGED <<alignVars, dark, mounted, hidden, callbacks>>

\* DarkSwitch.on_checkbox_changed(event), event the oldest posted message:
\* self.app.dark = event.value.
on_checkbox_changed ==
  /\ queue # <<>>
  /\ queue' = Tail(queue)
  /\ dark' = Head(queue)
  /\ callbacks' = IF watchers_fire(dark, Head(queue)) THEN callbacks + 1 ELSE callbacks
  /\ UNCHANGED <<alignVars, value, mounted, hidden, keys>>

\* DarkSwitch.on_dark_change(dark): self.query_one(Checkbox).value = self.app.dark.
on_dark_change ==
  /\ callbacks > 0
  /\ callbacks' = callbacks - 1
  /\ value' = dark
  /\ queue' = IF watchers_fire(value, dark) THEN post_changed(queue, dark) ELSE queue
  /\ UNCHANGED <<alignVars, dark, mounted, hidden, keys>>

DemoNext ==
  \/ on_mount
  \/ toggle_sidebar
  \/ toggle_dark
  \/ click_checkbox
  \/ on_checkbox_changed
  \/ on_dark_change

\* The event loop runs every handler whose message or callback is pending.
DemoSpec ==
  /\ DemoInit
  /\ [][DemoNext]_vars
  /\ WF_vars(on_mount)
  /\ WF_vars(on_checkbox_changed)
  /\ WF_vars(on_dark_change)

\* ---------------------------------------------------------------- claims
\* The lines __rich_console__ emitted, each as its cells.
OutRows ==
  LET out == SplitLines(emitted) IN [r \in 1..Len(out) |-> Cells(out[r])]
\* The inner lines of the call, each as its cells.
InnerRows == [i \in 1..Len(lines) |-> Cells(lines[i])]
NewLineCount == Cardinality({k \in DOMAIN emitted : IsNewLine(emitted[k])})

\* n cells of the fill style.
Fill(n) == [k \in 1..n |-> <<" ", align.style>>]
\* How many inner lines fit the target height.
Shown == Min(Len(lines), align.size.height)

\* Row `row` is inner line `inner` with `left` fill cells before it and the
\* rest of the target width in fill cells after it.
RowIs(row, inner, left) ==
  row = Fill(left) \o inner \o Fill(align.size.width - Len(inner) - left)

\* Row `row` is all fill cells.
FillRow(row) == row = Fill(align.size.width)

\* Row `row` shows inner line `inner`: padded somewhere when it fits, and a
\* window of exactly the target width of it when it does not.
RowShows(row, inner) ==
  IF Len(inner) <= align.size.width
  THEN \E left \in 0..(align.size.width - Len(inner)) : RowIs(row, inner, left)
  ELSE \E off \in 0..(Len(inner) - align.size.width) :
         row = SubSeq(inner, off + 1, off + align.size.width)

\* Some run of Shown consecutive output rows holds Shown consecutive inner
\* lines, and every one of those narrower than the target has left(leftover)
\* fill cells before it.
NarrowLinesPadded(rows, inner, left(_)) ==
  \E top \in 0..(align.size.height - Shown), skip \in 0..(Len(inner) - Shown) :
    \A i \in 1..Shown :
      Len(inner[skip + i]) < align.size.width
        => /\ top + i <= Len(rows)
           /\ RowIs(rows[top + i], inner[skip + i],
                    left(align.size.width - Len(inner[skip + i])))

\* Rows 1..top are fill rows, the inner lines follow, fill rows end the block.
ContentAtRow(rows, inner, top) ==
  /\ Len(rows) = align.size.height
  /\ \A r \in 1..top : FillRow(rows[r])
  /\ \A i \in 1..Len(inner) : RowShows(rows[top + i], inner[i])
  /\ \A r \in (top + Len(inner) + 1)..align.size.height : FillRow(rows[r])

Half(n) == n \div 2
All(n) == n
None(n) == 0

\* C1: whatever the size, the inner lines and the modes, __rich_console__
\* emits exactly size.height lines, one new_line segment after each, and every
\* line is exactly size.width cells wide.
C1_OutputIsHeightByWidth ==
  rendered =>
    LET rows == OutRows
    IN /\ Len(rows) = align.size.height
       /\ NewLineCount = align.size.height
       /\ \A r \in 1..Len(rows) : Len(rows[r]) = align.size.width

C1_Witness ==
  /\ rendered
  /\ align.size.height > Len(lines)
  /\ Len(lines) > 0
  /\ \E i \in 1..Len(lines) :
       0 < Len(InnerRows[i]) /\ Len(InnerRows[i]) < align.size.width

\* C2: with horizontal = center, a line narrower than the target width has
\* floor(leftover / 2) fill cells on its left and the remaining
\* leftover - floor(leftover / 2) on its right; an inner width of 3 in a
\* width of 6 has 1 fill cell on the left and 2 on the right.
C2_CenterOddRemainderRight ==
  (rendered /\ align.horizontal = "center") =>
    LET rows == OutRows
        inner == InnerRows
    IN /\ NarrowLinesPadded(rows, inner, Half)
       /\ \A i \in 1..Len(inner) :
            (align.size.width = 6 /\ Len(inner[i]) = 3
               /\ Len(inner) <= align.size.height)
              => \E r \in 1..Len(rows) :
                   rows[r] = Fill(1) \o inner[i] \o Fill(2)

C2_Witness ==
  /\ rendered
  /\ align.horizontal = "center"
  /\ align.size.width = 6
  /\ align.size.height >= 1
  /\ Len(lines) >= 1
  /\ Len(InnerRows[1]) = 3

\* C3: with horizontal = right, a line narrower than the target width has all
\* of its leftover width in fill cells on its left and none on its right; with
\* horizontal = left, all of it on its right and none on its left.
C3_RightAndLeftPadOneSide ==
  LET rows == OutRows
      inner == InnerRows
  IN /\ (rendered /\ align.horizontal = "right")
          => NarrowLinesPadded(rows, inner, All)
     /\ (rendered /\ align.horizontal = "left")
          => NarrowLinesPadded(rows, inner, None)

C3_Witness ==
  /\ rendered
  /\ align.horizontal = "right"
  /\ align.size.height >= 1
  /\ Len(lines) >= 1
  /\ 0 < Len(InnerRows[1])
  /\ Len(InnerRows[1]) + 2 <= align.size.width

\* C4: with vertical = middle and fewer inner lines than size.height,
\* floor(leftover / 2) fill rows come above the content and
\* leftover - floor(leftover / 2) below it, size.height rows in all.
C4_MiddleOddRemainderBelow ==
  (rendered /\ align.vertical = "middle" /\ Len(lines) < align.size.height) =>
    LET rows == OutRows
        leftover == align.size.height - Len(lines)
    IN /\ ContentAtRow(rows, InnerRows, leftover \div 2)
       /\ Len(rows) - (leftover \div 2) - Len(lines)
            = leftover - (leftover \div 2)

C4_Witness ==
  /\ rendered
  /\ align.vertical = "middle"
  /\ Len(lines) >= 1
  /\ align.size.height = Len(lines) + 3
  /\ Len(InnerRows[1]) >= 1
  /\ align.size.width >= 1

\* C5: with vertical = bottom all leftover rows are fill rows above the
\* content, which takes the last rows (one inner line in a height of 4 is the
\* 4th line); with vertical = top all leftover rows are fill rows below the
\* content, which takes the first rows.
C5_BottomAndTopPadOneSide ==
  LET rows == OutRows
      inner == InnerRows
  IN /\ (rendered /\ align.vertical = "bottom" /\ Len(lines) <= align.size.height)
          => ContentAtRow(rows, inner, align.size.height - Len(lines))
     /\ (rendered /\ align.vertical = "bottom" /\ Len(lines) = 1
           /\ align.size.height = 4)
          => /\ Len(rows) = 4
             /\ RowShows(rows[4], inner[1])
             /\ \A r \in 1..3 : FillRow(rows[r])
     /\ (rendered /\ align.vertical = "top" /\ Len(lines) <= align.size.height)
          => ContentAtRow(rows, inner, 0)

C5_Witness ==
  /\ rendered
  /\ align.vertical = "bottom"
  /\ Len(lines) = 1
  /\ align.size.height = 4
  /\ Len(InnerRows[1]) >= 1
  /\ align.size.width >= 1

\* C6: inner content wider than size.width or taller than size.height is
\* cropped: the output is still size.height lines of size.width cells, every
\* shown line is a window of its inner line (padded only where it is
\* narrower), the other rows are fill rows, and no count of fill is negative.
C6_OverflowIsCropped ==
  (rendered /\ (Len(lines) > align.size.height
                  \/ \E i \in 1..Len(lines) :
                       get_line_length(lines[i]) > align.size.width)) =>
    LET rows == OutRows
        inner == InnerRows
    IN /\ Len(rows) = align.size.height
       /\ \A r \in 1..Len(rows) : Len(rows[r]) = align.size.width
       /\ \E top \in 0..(align.size.height - Shown),
             skip \in 0..(Len(inner) - Shown) :
            /\ \A i \in 1..Shown : RowShows(rows[top + i], inner[skip + i])
            /\ \A r \in 1..top : FillRow(rows[r])
            /\ \A r \in (top + Shown + 1)..align.size.height : FillRow(rows[r])

C6_Witness ==
  /\ rendered
  /\ align.size.height >= 1
  /\ align.size.width >= 1
  /\ Len(lines) > align.size.height
  /\ \E i \in 1..Shown : get_line_length(lines[i]) > align.size.width

\* C7: rendering yields its lines in every state, for every console width
\* (there is no failure outcome), and every cell not copied from the input is
\* a fill cell: no inner lines give size.height rows of size.width fill cells,
\* and the one line "X" at size (3, 3), centered both ways, gives
\* "   ", " X ", "   ".
C7_EmptyAndSingleCell ==
  /\ \A max_width \in OptionWidths :
       Len(SplitLines(RichConsole(align, max_width).out)) = align.size.height
  /\ (rendered /\ lines = <<>>) =>
       LET rows == OutRows
       IN /\ Len(rows) = align.size.height
          /\ \A r \in 1..Len(rows) : FillRow(rows[r])
  /\ (/\ rendered
      /\ lines = <<ContentLine(1)>>
      /\ align.size = [width |-> 3, height |-> 3]
      /\ align.horizontal = "center"
      /\ align.vertical = "middle") =>
       OutRows = <<Fill(3), Fill(1) \o <<(<<"X", "bold">>)>> \o Fill(1), Fill(3)>>

C7_Witness ==
  /\ rendered
  /\ lines = <<ContentLine(1)>>
  /\ align.size = [width |-> 3, height |-> 3]
  /\ align.horizontal = "center"
  /\ align.vertical = "middle"

\* C8: __rich_measure__ reports minimum = maximum = size.width whatever the
\* inner renderable, the console options, the fill style and the modes, and
\* that is the width of every line __rich_console__ emits.
C8_MeasureIsSizeWidth ==
  measurement # <<>> =>
    /\ measurement = Measurement(align.size.width, align.size.width)
    /\ rendered =>
         LET rows == OutRows
         IN \A r \in 1..Len(rows) :
              /\ Len(rows[r]) = measurement.minimum
              /\ Len(rows[r]) = measurement.maximum

C8_Witness ==
  /\ measurement # <<>>
  /\ rendered
  /\ align.size.height >= 1
  /\ align.size.width = MaxLineLen
  /\ \E i \in 1..Len(lines) : get_line_length(lines[i]) = MaxLineLen - 1
  /\ Len(align.renderable) >= 1
  /\ get_line_length(align.renderable[1]) = MaxLineLen

\* C9: an Align with horizontal = center and vertical = middle whose inner
\* lines are the output of an Align of the same size, style and modes emits
\* exactly those lines again: the same rows, cell for cell.
C9_CenteringIsIdempotent ==
  (/\ wrapped
   /\ rendered
   /\ align.horizontal = "center"
   /\ align.vertical = "middle"
   /\ lines = align.renderable) =>
    OutRows = InnerRows

C9_Witness ==
  /\ wrapped
  /\ rendered
  /\ align.horizontal = "center"
  /\ align.vertical = "middle"
  /\ lines = align.renderable
  /\ align.size.height >= 3
  /\ align.size.width >= 3
  /\ OutRows = InnerRows
  /\ FillRow(OutRows[1])
  /\ \E r \in 2..Len(OutRows) :
       /\ OutRows[r][1] = Fill(1)[1]
       /\ \E c \in 2..align.size.width : OutRows[r][c][1] = "X"

\* No Checkbox.Changed message and no on_dark_change is pending.
Quiescent == queue = <<>> /\ callbacks = 0

\* C10: after the user's key presses and clicks, however they interleave with
\* the deliveries, the DarkSwitch reaches a state with nothing pending, and
\* whenever nothing is pending the Checkbox value equals app.dark.
C10_DarkSwitchSettles ==
  /\ []<>Quiescent
  /\ [](Quiescent => value = dark)

====
